---- MODULE Spec2Model ----
(***************************************************************************)
(* Speed-adaptive lane detection (enhanced_lane_detector.py and            *)
(* speed_monitor.py): the rolling speed window of SpeedProcessor, the      *)
(* mapping from the adaptation factor to the detection parameters, the     *)
(* right-lane classification of the overlay and the per-frame driver.      *)
(*                                                                         *)
(* Numbers.  Speeds are exact decimals held in hundredths of a km/h        *)
(* (Kmh(60) = 6000, so 60.01 km/h is 6001).  The adaptation factor is held *)
(* in units of 1/FactorOne, the ROI start in units of 1/RoiOne.  Binary    *)
(* floating-point rounding of the readings themselves is not modelled.     *)
(* A Python value is a record [kind, val]: kind "num" for int and float,   *)
(* any other kind for a value that fails isinstance(speed, (int, float)).  *)
(***************************************************************************)
EXTENDS Integers, Sequences, FiniteSets

VARIABLES
    speed_limit,    \* SpeedProcessor.speed_limit, hundredths of a km/h
    speed_history,  \* SpeedProcessor.speed_history
    speed,          \* the argument of the last add_speed_reading call
    speed_data,     \* what the last add_speed_reading call returned
    calls,          \* every argument add_speed_reading was called with, in order
    settings,       \* what the last get_speed_settings call returned
    speed_factor,   \* the argument of get_speed_settings
    width,          \* frame width in pixels
    lines,          \* what cv2.HoughLinesP returned: None or a non-empty sequence
    overlay,        \* what _add_overlay put on the frame
    speed_list,     \* the speed_data argument of process_video
    frames,         \* frames the input video still holds
    frame_count,    \* process_video's frame_count
    written,        \* frames written to the output
    pc              \* where process_video is

vars == <<speed_limit, speed_history, speed, speed_data, calls, settings,
          speed_factor, width, lines, overlay, speed_list, frames,
          frame_count, written, pc>>

----------------------------------------------------------------------------
(* Values *)

Kmh(n) == n * 100

Num(v) == [kind |-> "num", val |-> v]

Str(i) == [kind |-> "str", val |-> i]

None == [kind |-> "NoneType", val |-> 0]

\* isinstance(speed, (int, float))
IsNumber(v) == v.kind = "num"

Returned(v) == [raised |-> "none", value |-> v]

Raised(e) == [raised |-> e, value |-> None]

NotCalled == [raised |-> "not called", value |-> None]

Min(a, b) == IF a < b THEN a ELSE b

Max(a, b) == IF a > b THEN a ELSE b

\* Python's int() of the quotient n/d, d > 0: truncation toward zero
TruncDiv(n, d) == IF n >= 0 THEN n \div d ELSE -((-n) \div d)

RECURSIVE SumVals(_)
SumVals(s) == IF s = <<>> THEN 0 ELSE s[1].val + SumVals(Tail(s))

----------------------------------------------------------------------------
(* SpeedProcessor *)

WindowSize == 5

DangerNum == 13

DangerDen == 10

FactorSpan == 20

\* the factor 1.0, in factor units: one unit is 1/(20 * 100)
FactorOne == Kmh(FactorSpan)

\* faulty variant: the isinstance check left out
EffectiveReadingNoFallback(limit, s) == s

\* lines 11-12: a value that is no int or float is replaced by the limit
EffectiveReading(limit, s) == IF IsNumber(s) THEN s ELSE Num(limit)

\* faulty variant: the window evicts one call late
PushReadingSix(history, r) ==
    LET h == Append(history, r)
    IN  IF Len(h) > WindowSize + 1 THEN Tail(h) ELSE h

\* lines 14-16: append, then pop(0) when more than five are held
PushReading(history, r) ==
    LET h == Append(history, r)
    IN  IF Len(h) > WindowSize THEN Tail(h) ELSE h

\* faulty variant: >= for >
StatusOfInclusive(limit, current) ==
    IF current * DangerDen >= limit * DangerNum THEN "DANGER"
    ELSE IF current >= limit THEN "WARNING"
    ELSE "NORMAL"

\* faulty variant: the WARNING test made before the DANGER test
StatusOfSwapped(limit, current) ==
    IF current > limit THEN "WARNING"
    ELSE IF current * DangerDen > limit * DangerNum THEN "DANGER"
    ELSE "NORMAL"

\* lines 25-29
StatusOf(limit, current) ==
    IF current * DangerDen > limit * DangerNum THEN "DANGER"
    ELSE IF current > limit THEN "WARNING"
    ELSE "NORMAL"

\* faulty variant: min(1.0, ...) left out
FactorOfUnclamped(limit, current) == Max(0, current - limit)

\* line 31: min(1.0, max(0.0, (current - limit)/20)); (current - limit)/20 in
\* factor units is the difference in hundredths
FactorOf(limit, current) == Min(FactorOne, Max(0, current - limit))

\* faulty variant: status and factor taken from avg instead of current
AnalyzeByAverage(limit, history) ==
    IF history = <<>> THEN Raised("IndexError")
    ELSE IF \E i \in 1..Len(history) : ~IsNumber(history[i])
    THEN Raised("TypeError")
    ELSE LET current == history[Len(history)].val
             avg == SumVals(history) \div Len(history)
         IN  Returned([current |-> current,
                       average |-> [sum |-> SumVals(history),
                                    n |-> Len(history)],
                       status  |-> StatusOf(limit, avg),
                       factor  |-> FactorOf(limit, avg)])

\* lines 20-38; a str or None in the window makes np.mean and the
\* comparisons raise TypeError; an empty window raises IndexError
Analyze(limit, history) ==
    IF history = <<>> THEN Raised("IndexError")
    ELSE IF \E i \in 1..Len(history) : ~IsNumber(history[i])
    THEN Raised("TypeError")
    ELSE LET current == history[Len(history)].val
         IN  Returned([current |-> current,
                       average |-> [sum |-> SumVals(history),
                                    n |-> Len(history)],
                       status  |-> StatusOf(limit, current),
                       factor  |-> FactorOf(limit, current)])

\* lines 9-18
HistoryAfter(limit, history, s) ==
    PushReading(history, EffectiveReading(limit, s))

add_speed_reading(s) ==
    /\ speed' = s
    /\ speed_history' = HistoryAfter(speed_limit, speed_history, s)
    /\ speed_data' = Analyze(speed_limit, speed_history')

----------------------------------------------------------------------------
(* get_speed_settings *)

CannyMinBase == 50

CannyMinGain == 30

CannyMaxBase == 150

CannyMaxGain == 50

HoughFloor == 20

HoughBase == 50

HoughGain == 25

\* roi_start is held in units of 1/RoiOne: 0.5 is RoiBasePct hundredths,
\* 0.15 * factor is RoiGainPct hundredths of the factor
RoiBasePct == 50

RoiGainPct == 15

RoiOne == 100 * FactorOne

\* faulty variant: round() for int()
get_speed_settings_round(f) ==
    [canny_min    |-> CannyMinBase + TruncDiv(2 * CannyMinGain * f + FactorOne, 2 * FactorOne),
     canny_max    |-> CannyMaxBase + TruncDiv(2 * CannyMaxGain * f + FactorOne, 2 * FactorOne),
     hough_thresh |-> Max(HoughFloor, HoughBase - TruncDiv(2 * HoughGain * f + FactorOne, 2 * FactorOne)),
     roi_start    |-> RoiBasePct * FactorOne - RoiGainPct * f]

\* lines 40-47
get_speed_settings(f) ==
    [canny_min    |-> CannyMinBase + TruncDiv(CannyMinGain * f, FactorOne),
     canny_max    |-> CannyMaxBase + TruncDiv(CannyMaxGain * f, FactorOne),
     hough_thresh |-> Max(HoughFloor, HoughBase - TruncDiv(HoughGain * f, FactorOne)),
     roi_start    |-> RoiBasePct * FactorOne - RoiGainPct * f]

----------------------------------------------------------------------------
(* LaneDetector._add_overlay *)

\* lines 99-100: x > width * 0.6 and right_lane_lines / len(lines) > 0.7
RightNum == 6

RightDen == 10

MajorityNum == 7

MajorityDen == 10

Red == <<0, 0, 255>>

Green == <<0, 255, 0>>

Yellow == <<0, 255, 255>>

\* cv2.HoughLinesP: None when nothing is found, else an array of [x1,y1,x2,y2]
NoLines == [kind |-> "NoneType", val |-> <<>>]

Array(segs) == [kind |-> "ndarray", val |-> segs]

\* line 95: (x1 + x2)/2, held in half pixels
LinePosition(seg) == seg.x1 + seg.x2

\* line 99: x > width * 0.6
IsRight(x, w) == x * RightDen > 2 * RightNum * w

\* line 99: sum(1 for x in line_positions if x > width * 0.6)
RECURSIVE RightLaneLines(_, _)
RightLaneLines(segs, w) ==
    IF segs = <<>> THEN 0
    ELSE (IF IsRight(LinePosition(segs[1]), w) THEN 1 ELSE 0)
         + RightLaneLines(Tail(segs), w)

\* faulty variant: >= 0.7
IsMajorityInclusive(right, n) == right * MajorityDen >= MajorityNum * n

\* line 100: right_lane_lines / len(lines) > 0.7
IsMajority(right, n) == right * MajorityDen > MajorityNum * n

\* lines 113-117
SpeedColor(status) ==
    IF status = "WARNING" THEN Yellow
    ELSE IF status = "DANGER" THEN Red
    ELSE Green

\* faulty variant: "if lines is not None" left out, so None is iterated
add_overlay_unguarded(data, ls, w) ==
    IF Len(ls.val) = 0 THEN Raised("TypeError")
    ELSE LET in_right_lane == IsMajority(RightLaneLines(ls.val, w), Len(ls.val))
         IN  Returned([in_right_lane |-> in_right_lane,
                       color         |-> IF in_right_lane THEN Green ELSE Red,
                       lane_status   |-> IF in_right_lane THEN "IN RIGHT LANE"
                                         ELSE "NOT IN RIGHT LANE",
                       speed_status  |-> [text |-> "SPEED: ", value |-> data.current,
                                          unit |-> "km/h"],
                       speed_color   |-> SpeedColor(data.status)])

\* lines 88-120; an empty array (HoughLinesP returns none) would divide by
\* len(lines) = 0
add_overlay(data, ls, w) ==
    IF ls.kind # "NoneType" /\ Len(ls.val) = 0
    THEN Raised("ZeroDivisionError")
    ELSE LET in_right_lane ==
                 IF ls.kind = "NoneType" THEN FALSE
                 ELSE IsMajority(RightLaneLines(ls.val, w), Len(ls.val))
         IN  Returned([in_right_lane |-> in_right_lane,
                       color         |-> IF in_right_lane THEN Green ELSE Red,
                       lane_status   |-> IF in_right_lane THEN "IN RIGHT LANE"
                                         ELSE "NOT IN RIGHT LANE",
                       speed_status  |-> [text |-> "SPEED: ", value |-> data.current,
                                          unit |-> "km/h"],
                       speed_color   |-> SpeedColor(data.status)])

----------------------------------------------------------------------------
(* Specifications *)

NoCall == [kind |-> "no call", val |-> 0]

\* limits a SpeedProcessor is constructed with: whole km/h, 60 the default
SpeedLimits == {Kmh(1), Kmh(60)}

\* readings around the limit: below it, at it, 0.01 above it, halfway up the
\* factor ramp, at and 0.01 above 1.3 times the limit, at the end of the
\* ramp, beyond it
ReadingsAround(limit) ==
    {limit - Kmh(10), limit, limit + 1, limit + Kmh(10),
     (limit * DangerNum) \div DangerDen, (limit * DangerNum) \div DangerDen + 1,
     limit + Kmh(FactorSpan), limit + Kmh(35)}

NonNumbers == {Str(1), None}

Inputs(limit) == {Num(v) : v \in ReadingsAround(limit)} \cup NonNumbers

\* the SpeedProcessor half of the state, lines 5-7
InitProcessor(limits) ==
    /\ speed_limit \in limits
    /\ speed_history = <<>>
    /\ speed = NoCall
    /\ speed_data = NotCalled
    /\ calls = <<>>

InitSettings ==
    /\ settings = NotCalled
    /\ speed_factor = 0

InitFrame ==
    /\ width = 0
    /\ lines = NoLines
    /\ overlay = NotCalled

InitVideo ==
    /\ speed_list = <<>>
    /\ frames = 0
    /\ frame_count = 0
    /\ written = 0
    /\ pc = "idle"

frameVars == <<settings, speed_factor, width, lines, overlay>>

videoVars == <<speed_list, frames, frame_count, written, pc>>

(* Spec: one SpeedProcessor, add_speed_reading called with any input *)

Init ==
    /\ InitProcessor(SpeedLimits)
    /\ InitSettings
    /\ InitFrame
    /\ InitVideo

AddSpeedReading ==
    \E s \in Inputs(speed_limit) :
        /\ add_speed_reading(s)
        /\ UNCHANGED <<speed_limit, calls>>
        /\ UNCHANGED frameVars
        /\ UNCHANGED videoVars

Next == AddSpeedReading

Spec == Init /\ [][Next]_vars

(* SpecWindow: the same processor with every call logged, over fewer inputs *)

MaxCalls == 8

WindowInputs(limit) == {Num(limit - Kmh(10)), Num(limit + Kmh(10)), Str(1)}

LoggedAddSpeedReading ==
    \E s \in WindowInputs(speed_limit) :
        /\ Len(calls) < MaxCalls
        /\ add_speed_reading(s)
        /\ calls' = Append(calls, [speed |-> s, result |-> speed_data'])
        /\ UNCHANGED speed_limit
        /\ UNCHANGED frameVars
        /\ UNCHANGED videoVars

NextWindow == LoggedAddSpeedReading

SpecWindow == Init /\ [][NextWindow]_vars

(* SpecSettings: get_speed_settings applied to a factor *)

FactorMargin == 200

FactorGrid == (0 - FactorMargin)..(FactorOne + FactorMargin)

InitSettingsCall ==
    /\ InitProcessor({Kmh(60)})
    /\ settings = NotCalled
    /\ speed_factor \in FactorGrid
    /\ InitFrame
    /\ InitVideo

GetSpeedSettings ==
    /\ settings.raised = "not called"
    /\ settings' = Returned(get_speed_settings(speed_factor))
    /\ UNCHANGED <<speed_limit, speed_history, speed, speed_data, calls>>
    /\ UNCHANGED <<speed_factor, width, lines, overlay>>
    /\ UNCHANGED videoVars

NextSettings == GetSpeedSettings

SpecSettings == InitSettingsCall /\ [][NextSettings]_vars

(* SpecOverlay: _add_overlay applied to what HoughLinesP may return *)

MaxLines == 10

Widths == {960, 1278}

Seg(xsum) == [x1 |-> xsum \div 2, y1 |-> 0, x2 |-> xsum - xsum \div 2, y2 |-> 0]

\* n copies of seg
RECURSIVE Rep(_, _)
Rep(n, seg) == IF n = 0 THEN <<>> ELSE <<seg>> \o Rep(n - 1, seg)

\* the largest x1 + x2 whose midpoint is not right of 0.6 * width
BoundarySum(w) == (2 * RightNum * w) \div RightDen

\* segments far left, on the boundary, half a pixel or less right of it and
\* far right; the classification counts them, so their order is fixed
Segments(w, a, b, c, d) ==
    Rep(a, Seg(w \div 5)) \o Rep(b, Seg(BoundarySum(w)))
        \o Rep(c, Seg(BoundarySum(w) + 1)) \o Rep(d, Seg(2 * w - 2))

HoughResults(w) ==
    {NoLines} \cup
    {Array(Segments(w, a, b, c, d)) :
        <<a, b, c, d>> \in {q \in (0..MaxLines) \X (0..MaxLines) \X (0..MaxLines) \X (0..MaxLines) :
                              q[1] + q[2] + q[3] + q[4] \in 1..MaxLines}}

\* analyses add_speed_reading returns at limit 60: one per status
SomeAnalyses ==
    {Analyze(Kmh(60), <<Num(v)>>) : v \in {Kmh(40), Kmh(70), Kmh(100)}}

InitOverlayCall ==
    /\ speed_limit = Kmh(60)
    /\ speed_history = <<>>
    /\ speed = NoCall
    /\ speed_data \in SomeAnalyses
    /\ calls = <<>>
    /\ InitSettings
    /\ width \in Widths
    /\ lines \in HoughResults(width)
    /\ overlay = NotCalled
    /\ InitVideo

AddOverlay ==
    /\ overlay.raised = "not called"
    /\ overlay' = add_overlay(speed_data.value, lines, width)
    /\ UNCHANGED <<speed_limit, speed_history, speed, speed_data, calls>>
    /\ UNCHANGED <<settings, speed_factor, width, lines>>
    /\ UNCHANGED videoVars

NextOverlay == AddOverlay

SpecOverlay == InitOverlayCall /\ [][NextOverlay]_vars

(* SpecVideo: process_video over an input of some number of frames *)

MaxFrames == 16

\* line 163
test_speeds == <<Kmh(40), Kmh(50), Kmh(60), Kmh(70), Kmh(80), Kmh(90), Kmh(100)>>

\* the speed_data argument: the list __main__ passes, and a shorter one
SpeedLists == {test_speeds, <<Kmh(75), Kmh(30)>>}

VideoWidths == {960}

\* what HoughLinesP may find in a frame of the video
FrameLines(w) ==
    {NoLines, Array(Segments(w, 1, 0, 0, 0)), Array(Segments(w, 0, 0, 1, 3))}

\* faulty variant: the index held at the end of the list instead of wrapping
SpeedAtNoWrap(list, k) == list[Min(k, Len(list) - 1) + 1]

\* line 153: speed_data[frame_count % len(speed_data)]
SpeedAt(list, k) == list[(k % Len(list)) + 1]

\* lines 53-86: an exception of add_speed_reading leaves the frame unprocessed
process_frame(current_speed, ls) ==
    /\ add_speed_reading(current_speed)
    /\ calls' = Append(calls, [speed |-> current_speed, result |-> speed_data'])
    /\ IF speed_data'.raised = "none"
       THEN /\ speed_factor' = speed_data'.value.factor
            /\ settings' = Returned(get_speed_settings(speed_factor'))
            /\ lines' = ls
            /\ overlay' = add_overlay(speed_data'.value, ls, width)
       ELSE UNCHANGED <<speed_factor, settings, lines, overlay>>

\* lines 125-146: LaneDetector() takes the default limit of 60
InitProcessVideo ==
    /\ InitProcessor({Kmh(60)})
    /\ InitSettings
    /\ width \in VideoWidths
    /\ lines = NoLines
    /\ overlay = NotCalled
    /\ speed_list \in SpeedLists
    /\ frames \in 0..MaxFrames
    /\ frame_count = 0
    /\ written = 0
    /\ pc = "open"

\* lines 128-130
OpenFails ==
    /\ pc = "open"
    /\ pc' = "not opened"
    /\ UNCHANGED <<speed_limit, speed_history, speed, speed_data, calls>>
    /\ UNCHANGED frameVars
    /\ UNCHANGED <<speed_list, frames, frame_count, written>>

\* lines 131-146
OpenOk ==
    /\ pc = "open"
    /\ pc' = "loop"
    /\ UNCHANGED <<speed_limit, speed_history, speed, speed_data, calls>>
    /\ UNCHANGED frameVars
    /\ UNCHANGED <<speed_list, frames, frame_count, written>>

\* lines 147-156, ret true
ReadFrame ==
    /\ pc = "loop"
    /\ frames > 0
    /\ \E ls \in FrameLines(width) :
           process_frame(Num(SpeedAt(speed_list, frame_count)), ls)
    /\ frames' = frames - 1
    /\ IF overlay'.raised = "none" /\ speed_data'.raised = "none"
       THEN /\ written' = written + 1
            /\ frame_count' = frame_count + 1
            /\ pc' = "loop"
       ELSE /\ pc' = "raised"
            /\ UNCHANGED <<written, frame_count>>
    /\ UNCHANGED <<speed_limit, width, speed_list>>

\* lines 149-150 and 158-159, ret false
EndOfInput ==
    /\ pc = "loop"
    /\ frames = 0
    /\ pc' = "done"
    /\ UNCHANGED <<speed_limit, speed_history, speed, speed_data, calls>>
    /\ UNCHANGED frameVars
    /\ UNCHANGED <<speed_list, frames, frame_count, written>>

NextVideo == OpenFails \/ OpenOk \/ ReadFrame \/ EndOfInput

SpecVideo == InitProcessVideo /\ [][NextVideo]_vars

----------------------------------------------------------------------------
(* Properties *)

\* the reading a call stands for: its argument, or the limit when the
\* argument is no number
EffectiveOf(s) == IF s.kind = "num" THEN s ELSE Num(speed_limit)

\* C1: after every add_speed_reading call the window holds at most 5
\* entries, and it is exactly the last min(calls, 5) effective readings in
\* the order they were added, the oldest evicted first.
C1_WindowIsLastFive ==
    /\ Len(speed_history) <= 5
    /\ Len(speed_history) = Min(Len(calls), 5)
    /\ \A i \in 1..Len(speed_history) :
           speed_history[i] =
               EffectiveOf(calls[Len(calls) - Len(speed_history) + i].speed)

\* seven calls made, the first of them evicted, a non-number among the last five
C1_Witness ==
    /\ Len(calls) = 7
    /\ Len(speed_history) = 5
    /\ calls[1].speed # calls[3].speed
    /\ calls[4].speed.kind = "str"
    /\ speed_history[2] = Num(speed_limit)
    /\ speed_history[5].val > speed_limit

\* C2: a call with a non-number never raises, and leaves the window and
\* returns the analysis that a call with the speed limit would have, from
\* the same window.
C2_NonNumberIsLimit ==
    [][(speed'.kind \in {"str", "NoneType"}) =>
          /\ speed_data'.raised = "none"
          /\ speed_data'.value.current = speed_limit
          /\ speed_history' = HistoryAfter(speed_limit, speed_history, Num(speed_limit))
          /\ speed_data' = Analyze(speed_limit, HistoryAfter(speed_limit, speed_history,
                                                             Num(speed_limit)))]_vars

\* a text reading answered from a full window of other readings
C2_Witness ==
    /\ speed.kind = "str"
    /\ speed_data.raised = "none"
    /\ speed_data.value.current = speed_limit
    /\ speed_data.value.status = "NORMAL"
    /\ Len(speed_history) = 5
    /\ speed_history[1].val < speed_limit
    /\ speed_history[4].val > speed_limit

\* C4: a reading exactly at the speed limit returns status NORMAL and
\* factor 0.0, whatever the limit and the window before it.
C4_AtLimitIsNormal ==
    speed = Num(speed_limit) =>
        /\ speed_data.raised = "none"
        /\ speed_data.value.status = "NORMAL"
        /\ speed_data.value.factor = 0

\* the limit read right after a reading in the DANGER range
C4_Witness ==
    /\ speed = Num(speed_limit)
    /\ Len(speed_history) = 5
    /\ speed_history[4].val * 10 > speed_limit * 13
    /\ speed_data.raised = "none"
    /\ speed_data.value.status = "NORMAL"

\* C5: a reading of the limit plus 0.01 returns WARNING, and a reading of
\* 1.3 times the limit plus 0.01 returns DANGER, whatever the limit and the
\* window before it.
C5_JustAboveThresholds ==
    /\ speed = Num(speed_limit + 1) =>
           speed_data.raised = "none" /\ speed_data.value.status = "WARNING"
    /\ speed = Num((speed_limit * 13) \div 10 + 1) =>
           speed_data.raised = "none" /\ speed_data.value.status = "DANGER"

\* 1.3 * limit + 0.01 read right after limit + 0.01
C5_Witness ==
    /\ Len(speed_history) = 5
    /\ speed_history[4] = Num(speed_limit + 1)
    /\ speed = Num((speed_limit * 13) \div 10 + 1)
    /\ speed_data.raised = "none"
    /\ speed_data.value.status = "DANGER"

\* C6: every returned factor lies in [0, 1]; it is 0 when the reading is at
\* most the limit and 1 when it is at least the limit plus 20; and of two
\* successive readings the larger never has the smaller factor, whatever
\* the window held.
C6_FactorClampedMonotone ==
    [][speed_data'.raised = "none" =>
          LET a == speed_data.value
              b == speed_data'.value
          IN  /\ 0 <= b.factor /\ b.factor <= FactorOne
              /\ b.current <= speed_limit => b.factor = 0
              /\ b.current >= speed_limit + Kmh(20) => b.factor = FactorOne
              /\ speed_data.raised = "none" =>
                     /\ a.current <= b.current => a.factor <= b.factor
                     /\ b.current <= a.current => b.factor <= a.factor]_vars

\* a factor of 0.5 returned right after a saturated one
C6_Witness ==
    /\ Len(speed_history) = 5
    /\ speed_history[4].val >= speed_limit + Kmh(20)
    /\ speed_data.raised = "none"
    /\ speed_data.value.factor * 2 = FactorOne
    /\ speed_data.value.current = speed_limit + Kmh(10)

\* floor(m * f) for a factor f held in factor units
FloorOf(m, f) == (m * f) \div FactorOne

\* C7: for every factor in [0, 1] get_speed_settings returns
\* canny_min = 50 + floor(30 f), canny_max = 150 + floor(50 f),
\* hough_thresh = max(20, 50 - floor(25 f)) and roi_start = 0.5 - 0.15 f;
\* factor 0 gives roi_start 0.5, factor 1 gives 80, 200, 25 and 0.35, and
\* hough_thresh is never below 25 nor roi_start below 0.35.
C7_SettingsOfFactor ==
    (settings.raised # "not called" /\ speed_factor \in 0..FactorOne) =>
        LET s == settings.value
            f == speed_factor
        IN  /\ settings.raised = "none"
            /\ s.canny_min = 50 + FloorOf(30, f)
            /\ s.canny_max = 150 + FloorOf(50, f)
            /\ s.hough_thresh = Max(20, 50 - FloorOf(25, f))
            /\ s.roi_start * 100 = 50 * RoiOne - 15 * (f * 100)
            /\ f = 0 => s.roi_start * 2 = RoiOne
            /\ f = FactorOne =>
                   /\ s.canny_min = 80
                   /\ s.canny_max = 200
                   /\ s.hough_thresh = 25
                   /\ s.roi_start * 100 = 35 * RoiOne
            /\ s.hough_thresh >= 25
            /\ s.roi_start * 100 >= 35 * RoiOne

\* the settings of a factor strictly inside the ramp, where floor matters
C7_Witness ==
    /\ settings.raised = "none"
    /\ speed_factor * 4 = 3 * FactorOne
    /\ settings.value.canny_min = 72
    /\ settings.value.canny_max = 187
    /\ settings.value.hough_thresh = 32

\* C8: with no segments detected the overlay completes without error and
\* reports not in the right lane: in_right_lane false, the red colour and
\* the text NOT IN RIGHT LANE, for any width and any analysis.
C8_NoLinesNotInLane ==
    (overlay.raised # "not called" /\ lines.kind = "NoneType") =>
        /\ overlay.raised = "none"
        /\ overlay.value.in_right_lane = FALSE
        /\ overlay.value.color = <<0, 0, 255>>
        /\ overlay.value.lane_status = "NOT IN RIGHT LANE"

\* an overlay drawn for no lines while the speed is in the DANGER range
C8_Witness ==
    /\ lines.kind = "NoneType"
    /\ overlay.raised = "none"
    /\ speed_data.value.status = "DANGER"
    /\ overlay.value.lane_status = "NOT IN RIGHT LANE"
    /\ overlay.value.speed_color = Red

\* the segments whose midpoint (x1 + x2)/2 is strictly right of 0.6 * width
RightOnes ==
    {i \in 1..Len(lines.val) :
        (lines.val[i].x1 + lines.val[i].x2) * 10 > 12 * width}

\* C9: for a non-empty set of segments in_right_lane is true exactly when
\* the fraction of segments with midpoint strictly right of 0.6 * width is
\* strictly greater than 0.7: true for 8 of 10, false for exactly 7 of 10.
C9_RightLaneMajority ==
    (overlay.raised # "not called" /\ lines.kind = "ndarray") =>
        LET n == Len(lines.val)
            r == Cardinality(RightOnes)
        IN  /\ overlay.raised = "none"
            /\ overlay.value.in_right_lane = (r * 10 > 7 * n)
            /\ (n = 10 /\ r = 8) => overlay.value.in_right_lane = TRUE
            /\ (n = 10 /\ r = 7) => overlay.value.in_right_lane = FALSE

\* ten segments, exactly seven of them right of the boundary, some by half a
\* pixel, and one midpoint on the boundary itself
C9_Witness ==
    /\ overlay.raised = "none"
    /\ lines.kind = "ndarray"
    /\ Len(lines.val) = 10
    /\ Cardinality(RightOnes) = 7
    /\ \E i \in 1..10 : (lines.val[i].x1 + lines.val[i].x2) * 10 = 12 * width
    /\ \E i \in 1..10 : (lines.val[i].x1 + lines.val[i].x2) * 10 = 12 * width + 10
    /\ overlay.value.in_right_lane = FALSE

\* the value of the cycled list the k-th frame (k from 0) consumes
Cycled(k) == speed_list[(k % Len(speed_list)) + 1]

\* C10: in process_video the k-th frame read calls add_speed_reading exactly
\* once, with speed_data[k mod len(speed_data)]; the frame's settings and
\* overlay come from that call's analysis; after k frames the window holds
\* the last min(k, 5) values of the cycled list; and the loop ends when the
\* input has no more frames.
C10_OneSpeedPerFrame ==
    (pc \in {"loop", "done"}) =>
        /\ Len(calls) = frame_count
        /\ written = frame_count
        /\ \A k \in 0..(frame_count - 1) : calls[k + 1].speed = Num(Cycled(k))
        /\ Len(speed_history) = Min(frame_count, 5)
        /\ \A i \in 1..Len(speed_history) :
               speed_history[i] = Num(Cycled(frame_count - Len(speed_history) + i - 1))
        /\ frame_count > 0 =>
               /\ speed_data = calls[frame_count].result
               /\ speed_data.raised = "none"
               /\ speed_data.value.current = Cycled(frame_count - 1)
               /\ settings = Returned(get_speed_settings(speed_data.value.factor))
               /\ overlay.raised = "none"
               /\ overlay.value.speed_status.value = speed_data.value.current
               /\ overlay.value.speed_color =
                      (IF speed_data.value.status = "NORMAL" THEN <<0, 255, 0>>
                       ELSE IF speed_data.value.status = "WARNING" THEN <<0, 255, 255>>
                       ELSE <<0, 0, 255>>)
        /\ pc = "done" => frames = 0
        /\ (pc = "loop" /\ frames > 0) => ENABLED ReadFrame

\* nine frames of the list of seven read to the end of the input: the window
\* wraps around the end of the list
C10_Witness ==
    /\ pc = "done"
    /\ speed_list = test_speeds
    /\ frame_count = 9
    /\ speed_history = <<Num(Kmh(80)), Num(Kmh(90)), Num(Kmh(100)),
                         Num(Kmh(40)), Num(Kmh(50))>>
    /\ speed_data.value.status = "NORMAL"

\* C3 as stated: the speeds 40, 50, 60, 70, 80, 90, 100 against the limit 60
\* return the statuses NORMAL, NORMAL, NORMAL, WARNING, WARNING, WARNING,
\* DANGER and the factors 0, 0, 0, 0.5, 1, 1, 1.
C3_StatedScenario ==
    (speed_list = test_speeds /\ speed_limit = Kmh(60)) =>
        \A k \in 1..Min(Len(calls), 7) :
            /\ calls[k].result.raised = "none"
            /\ calls[k].result.value.status =
                   <<"NORMAL", "NORMAL", "NORMAL", "WARNING",
                     "WARNING", "WARNING", "DANGER">>[k]
            /\ calls[k].result.value.factor * 2 = <<0, 0, 0, 1, 2, 2, 2>>[k] * FactorOne

\* C3 as the code has it: the same speeds return the statuses NORMAL,
\* NORMAL, NORMAL, WARNING, DANGER, DANGER, DANGER (80 and 90 exceed
\* 1.3 * 60 = 78) and the factors 0, 0, 0, 0.5, 1, 1, 1.
C3_Scenario ==
    (speed_list = test_speeds /\ speed_limit = Kmh(60)) =>
        \A k \in 1..Min(Len(calls), 7) :
            /\ calls[k].result.raised = "none"
            /\ calls[k].result.value.status =
                   <<"NORMAL", "NORMAL", "NORMAL", "WARNING",
                     "DANGER", "DANGER", "DANGER">>[k]
            /\ calls[k].result.value.factor * 2 = <<0, 0, 0, 1, 2, 2, 2>>[k] * FactorOne

\* all seven speeds of the list fed once
C3_Witness ==
    /\ speed_list = test_speeds
    /\ speed_limit = Kmh(60)
    /\ Len(calls) = 7
    /\ calls[7].speed = Num(Kmh(100))
    /\ calls[5].result.value.status = "DANGER"
    /\ calls[4].result.value.factor * 2 = FactorOne

====
